---- MODULE Spec2Model ----
(***************************************************************************)
(* chromazone (cz): a line filter that styles the substrings matched by a  *)
(* set of regular expressions.  The model covers the region scanner        *)
(* (Regions::next, MatchStyles::find_match) and the driver loop of         *)
(* try_main, both of src/src/main.rs.                                      *)
(*                                                                         *)
(* Text is a sequence of one-character strings; offsets are 0-based as in  *)
(* the source, so the slice text[a..b] is SubSeq(text, a + 1, b).          *)
(* An Option is a sequence of length at most one: <<>> is None, <<x>> is   *)
(* Some(x).                                                                *)
(***************************************************************************)
EXTENDS Integers, Sequences, FiniteSets

\* Longest line given to the scanner.
MaxLen == 3
\* Largest number of match styles in a pattern set.
MaxStyles == 2
\* Largest number of regions recorded for one line (a zero-width match at
\* offset 0 makes the region sequence infinite).
MaxRegions == 5
\* Longest standard input given to the driver, in characters.
MaxInput == 3
\* Largest number of match styles in a pattern set given to the driver.
MaxDriverStyles == 1

Chars == {"a", "b"}
Newline == "\n"
NoStyle == "plain"
Styles == {"red", "green"}

None == <<>>
Some(x) == <<x>>
IsSome(o) == o # <<>>
Unwrap(o) == o[1]

Min(S) == CHOOSE x \in S : \A y \in S : x <= y
Max(S) == CHOOSE x \in S : \A y \in S : x >= y

\* All sequences over S of length at most n.
SeqUpTo(S, n) == UNION {[1..k -> S] : k \in 0..n}

\* text[from..to] and text[from..] with 0-based byte offsets.
Slice(text, from, to) == SubSeq(text, from + 1, to)
SliceFrom(text, from) == SubSeq(text, from + 1, Len(text))

(***************************************************************************)
(* Regular expressions.  A pattern is an optional ^, a sequence of atoms   *)
(* (a character or ".", each optionally starred, greedy) and an optional   *)
(* $.  Regex::find returns the leftmost match and, at that start, the      *)
(* match the greedy, backtracking search prefers.                          *)
(***************************************************************************)
Lit(c) == [c |-> c, star |-> FALSE]
Star(c) == [c |-> c, star |-> TRUE]
Re(anchored, atoms, dollar) ==
    [anchored |-> anchored, atoms |-> atoms, dollar |-> dollar]

\* The patterns the pattern sets are drawn from:  a  b  ab  a*  ^a  $
Patterns ==
    { Re(FALSE, <<Lit("a")>>, FALSE),
      Re(FALSE, <<Lit("b")>>, FALSE),
      Re(FALSE, <<Lit("a"), Lit("b")>>, FALSE),
      Re(FALSE, <<Star("a")>>, FALSE),
      Re(TRUE, <<Lit("a")>>, FALSE),
      Re(FALSE, <<>>, TRUE) }

AtomMatches(a, ch) == a.c = "." \/ a.c = ch

\* Number of consecutive characters from offset pos that atom a accepts.
RECURSIVE Run(_, _, _)
Run(a, text, pos) ==
    IF pos < Len(text) /\ AtomMatches(a, text[pos + 1])
    THEN 1 + Run(a, text, pos + 1)
    ELSE 0

\* End offset of the preferred match of atoms k.. starting at offset pos,
\* or -1 when there is none.
RECURSIVE MatchEnd(_, _, _, _)
MatchEnd(re, k, text, pos) ==
    IF k > Len(re.atoms)
    THEN IF re.dollar /\ pos # Len(text) THEN -1 ELSE pos
    ELSE LET a == re.atoms[k] IN
         IF ~a.star
         THEN IF pos < Len(text) /\ AtomMatches(a, text[pos + 1])
              THEN MatchEnd(re, k + 1, text, pos + 1)
              ELSE -1
         ELSE LET ns == {n \in 0..Run(a, text, pos) :
                            MatchEnd(re, k + 1, text, pos + n) # -1}
              IN IF ns = {} THEN -1
                 ELSE MatchEnd(re, k + 1, text, pos + Max(ns))

\* Offsets at which pattern re has a match in text.
MatchStarts(re, text) ==
    {s \in (IF re.anchored THEN {0} ELSE 0..Len(text)) :
        MatchEnd(re, 1, text, s) # -1}

\* Regex::find: the leftmost match as Some([start, end]), or None.
Find(re, text) ==
    IF MatchStarts(re, text) = {} THEN None
    ELSE LET s == Min(MatchStarts(re, text))
         IN Some([start |-> s, end |-> MatchEnd(re, 1, text, s)])

\* regex::Match::as_str
AsStr(text, m) == Slice(text, m.start, m.end)

(***************************************************************************)
(* Match styles and pattern sets.                                          *)
(***************************************************************************)
MatchStyle == [pattern : Patterns, style : Styles]
PatternSets == SeqUpTo(MatchStyle, MaxStyles)
Lines == SeqUpTo(Chars, MaxLen)

Unmatched(t) == [kind |-> "Unmatched", text |-> t, style |-> NoStyle]
Matched(t, s) == [kind |-> "Matched", text |-> t, style |-> s]

\* The filter_map of find_match: the (match, style) pairs of the patterns
\* that match, in the order of the set.
RECURSIVE FilterMap(_, _)
FilterMap(set, text) ==
    IF set = <<>> THEN <<>>
    ELSE LET m == Find(Head(set).pattern, text)
             rest == FilterMap(Tail(set), text)
         IN IF IsSome(m)
            THEN <<[m |-> Unwrap(m), style |-> Head(set).style]>> \o rest
            ELSE rest

\* min_by with the comparison reversed: the largest start offset wins.
RECURSIVE MinByStart_Largest(_, _)
MinByStart_Largest(best, found) ==
    IF found = <<>> THEN best
    ELSE IF best.m.start < Head(found).m.start
         THEN MinByStart_Largest(Head(found), Tail(found))
         ELSE MinByStart_Largest(best, Tail(found))

\* min_by replacing the minimum on an equal start too: the last listed
\* pattern wins a tie.
RECURSIVE MinByStart_LastOnTie(_, _)
MinByStart_LastOnTie(best, found) ==
    IF found = <<>> THEN best
    ELSE IF best.m.start >= Head(found).m.start
         THEN MinByStart_LastOnTie(Head(found), Tail(found))
         ELSE MinByStart_LastOnTie(best, Tail(found))

\* Iterator::min_by on the start offset: a later element replaces the
\* current minimum only when it compares strictly less.
RECURSIVE MinByStart(_, _)
MinByStart(best, found) ==
    IF found = <<>> THEN best
    ELSE IF best.m.start > Head(found).m.start
         THEN MinByStart(Head(found), Tail(found))
         ELSE MinByStart(best, Tail(found))

find_match(set, text) ==
    LET found == FilterMap(set, text)
    IN IF found = <<>> THEN None
       ELSE Some(MinByStart(Head(found), Tail(found)))

VARIABLES
    styles,     \* Opts.styles / Parser.styles: the pattern set
    line,       \* the line given to Parser::regions
    text,       \* Regions.text: remaining text to be matched
    previous,   \* Regions.previous: Option of (match text, style)
    regions,    \* the regions next() has returned for this line, in order
    ret,        \* what the last call of next() returned (None before any)
    calls,      \* number of calls of next() on this Regions value
    input,      \* everything standard input holds
    stdin,      \* the part of standard input not read yet
    buf,        \* try_main's line buffer
    out,        \* standard output
    pc,         \* "regions": iterating a line; "read": at read_line; "done"
    description, \* Description.0: the style description being parsed
    parts,      \* try_from: the parts of the description not looked at yet
    style,      \* try_from: the Style built so far
    sres,       \* try_from: the Result returned, None while it runs
    env,        \* XDG_CONFIG_HOME, HOME and the file at the resolved path
    config,     \* find_style: the lines of the configuration not read yet
    wanted,     \* find_style: the requested section name
    append,     \* find_style: the requested section is open
    result,     \* find_style: the match styles collected so far
    cres,       \* read_style_from_config: the Result returned, None before
    argv,       \* std::env::args().skip(1): the command line
    args,       \* Opts::parse: the command-line arguments not consumed yet
    help,       \* Opts.help
    perr,       \* Opts::parse: the Err it returned, None otherwise
    exit,       \* main: the ExitCode returned, None while running
    stderr      \* standard error

scan == <<text, previous, regions, ret, calls>>
driver == <<input, stdin, buf, out>>
descv == <<description, parts, style, sres>>
cfgv == <<env, config, wanted, append, result, cres>>
optv == <<argv, args, help, perr, exit, stderr>>
setup == <<descv, cfgv, optv>>
vars == <<styles, line, text, previous, regions, ret, calls, input, stdin,
          buf, out, pc, description, parts, style, sres, env, config,
          wanted, append, result, cres, argv, args, help, perr, exit,
          stderr>>

\* The values of the variables of a part of the program that is not run.
IdleDesc == description = <<>> /\ parts = <<>> /\ style = <<>> /\ sres = None
IdleCfg ==
    /\ env = <<>>
    /\ config = <<>>
    /\ wanted = ""
    /\ append = FALSE
    /\ result = <<>>
    /\ cres = None
IdleOpt ==
    /\ argv = <<>>
    /\ args = <<>>
    /\ help = FALSE
    /\ perr = None
    /\ exit = None
    /\ stderr = <<>>
IdleScan ==
    /\ line = <<>>
    /\ text = <<>>
    /\ previous = None
    /\ regions = <<>>
    /\ ret = None
    /\ calls = 0
IdleDriver == input = <<>> /\ stdin = <<>> /\ buf = <<>> /\ out = <<>>

(***************************************************************************)
(* Regions::next, one action per path through the function.                *)
(***************************************************************************)
CanCall == pc = "regions" /\ Len(regions) < MaxRegions

\* if let Some((text, style)) = self.previous.take()
NextPrevious ==
    /\ CanCall
    /\ IsSome(previous)
    /\ previous' = None
    /\ ret' = Some(Matched(Unwrap(previous).text, Unwrap(previous).style))
    /\ regions' = Append(regions, Unwrap(ret'))
    /\ calls' = calls + 1
    /\ UNCHANGED text

\* The is_empty check made before the buffered match is looked at.
NextEmpty_IgnoresBuffer ==
    /\ pc = "regions"
    /\ text = <<>>
    /\ ret' = None
    /\ calls' = IF calls < MaxRegions + 1 THEN calls + 1 ELSE calls
    /\ UNCHANGED <<text, previous, regions>>

\* if self.text.is_empty() { return None; }
NextEmpty ==
    /\ pc = "regions"
    /\ previous = None
    /\ text = <<>>
    /\ ret' = None
    /\ calls' = IF calls < MaxRegions + 1 THEN calls + 1 ELSE calls
    /\ UNCHANGED <<text, previous, regions>>

\* The no-match path without the advance of self.text to its end.
NextNoMatch_KeepsText ==
    /\ CanCall
    /\ previous = None
    /\ text # <<>>
    /\ find_match(styles, text) = None
    /\ ret' = Some(Unmatched(text))
    /\ regions' = Append(regions, Unwrap(ret'))
    /\ calls' = calls + 1
    /\ UNCHANGED <<text, previous>>

\* find_match is None: the whole remaining text is one Unmatched region.
NextNoMatch ==
    /\ CanCall
    /\ previous = None
    /\ text # <<>>
    /\ find_match(styles, text) = None
    /\ text' = SliceFrom(text, Len(text))
    /\ ret' = Some(Unmatched(text))
    /\ regions' = Append(regions, Unwrap(ret'))
    /\ calls' = calls + 1
    /\ UNCHANGED previous

\* The start > 0 path without storing the match in self.previous.
NextBeforeMatch_DropsMatch ==
    /\ CanCall
    /\ previous = None
    /\ text # <<>>
    /\ IsSome(find_match(styles, text))
    /\ LET f == Unwrap(find_match(styles, text)) IN
        /\ f.m.start > 0
        /\ text' = SliceFrom(text, f.m.end)
        /\ ret' = Some(Unmatched(Slice(text, 0, f.m.start)))
    /\ regions' = Append(regions, Unwrap(ret'))
    /\ calls' = calls + 1
    /\ UNCHANGED previous

\* The start > 0 path advancing self.text to the match's start instead of
\* its end.
NextBeforeMatch_SliceAtStart ==
    /\ CanCall
    /\ previous = None
    /\ text # <<>>
    /\ IsSome(find_match(styles, text))
    /\ LET f == Unwrap(find_match(styles, text)) IN
        /\ f.m.start > 0
        /\ text' = SliceFrom(text, f.m.start)
        /\ previous' = Some([text |-> AsStr(text, f.m), style |-> f.style])
        /\ ret' = Some(Unmatched(Slice(text, 0, f.m.start)))
    /\ regions' = Append(regions, Unwrap(ret'))
    /\ calls' = calls + 1

\* The buffering path taken for a match at any start, offset 0 included.
NextBeforeMatch_AnyStart ==
    /\ CanCall
    /\ previous = None
    /\ text # <<>>
    /\ IsSome(find_match(styles, text))
    /\ LET f == Unwrap(find_match(styles, text)) IN
        /\ text' = SliceFrom(text, f.m.end)
        /\ previous' = Some([text |-> AsStr(text, f.m), style |-> f.style])
        /\ ret' = Some(Unmatched(Slice(text, 0, f.m.start)))
    /\ regions' = Append(regions, Unwrap(ret'))
    /\ calls' = calls + 1

\* A match at start > 0: the text before it now, the match in the next call.
NextBeforeMatch ==
    /\ CanCall
    /\ previous = None
    /\ text # <<>>
    /\ IsSome(find_match(styles, text))
    /\ LET f == Unwrap(find_match(styles, text)) IN
        /\ f.m.start > 0
        /\ text' = SliceFrom(text, f.m.end)
        /\ previous' = Some([text |-> AsStr(text, f.m), style |-> f.style])
        /\ ret' = Some(Unmatched(Slice(text, 0, f.m.start)))
    /\ regions' = Append(regions, Unwrap(ret'))
    /\ calls' = calls + 1

\* The start = 0 path without the is_empty check before find_match.
NextAtStart_NoEmptyCheck ==
    /\ CanCall
    /\ previous = None
    /\ IsSome(find_match(styles, text))
    /\ LET f == Unwrap(find_match(styles, text)) IN
        /\ f.m.start = 0
        /\ text' = SliceFrom(text, f.m.end)
        /\ ret' = Some(Matched(Slice(text, 0, f.m.end), f.style))
    /\ regions' = Append(regions, Unwrap(ret'))
    /\ calls' = calls + 1
    /\ UNCHANGED previous

\* A match at start 0: the matched span now.
NextAtStart ==
    /\ CanCall
    /\ previous = None
    /\ text # <<>>
    /\ IsSome(find_match(styles, text))
    /\ LET f == Unwrap(find_match(styles, text)) IN
        /\ f.m.start = 0
        /\ text' = SliceFrom(text, f.m.end)
        /\ ret' = Some(Matched(Slice(text, 0, f.m.end), f.style))
    /\ regions' = Append(regions, Unwrap(ret'))
    /\ calls' = calls + 1
    /\ UNCHANGED previous

(***************************************************************************)
(* The scanner on its own: Parser::regions(line) and repeated next().      *)
(***************************************************************************)
ScanInit ==
    /\ styles \in PatternSets
    /\ line \in Lines
    /\ text = line
    /\ previous = None
    /\ regions = <<>>
    /\ ret = None
    /\ calls = 0
    /\ input = <<>>
    /\ stdin = <<>>
    /\ buf = <<>>
    /\ out = <<>>
    /\ pc = "regions"
    /\ IdleDesc /\ IdleCfg /\ IdleOpt

ScanPrevious == NextPrevious /\ UNCHANGED <<styles, line, driver, pc, setup>>
ScanEmpty == NextEmpty /\ UNCHANGED <<styles, line, driver, pc, setup>>
ScanNoMatch == NextNoMatch /\ UNCHANGED <<styles, line, driver, pc, setup>>
ScanBeforeMatch == NextBeforeMatch /\ UNCHANGED <<styles, line, driver, pc, setup>>
ScanAtStart == NextAtStart /\ UNCHANGED <<styles, line, driver, pc, setup>>

ScanNext ==
    \/ ScanPrevious
    \/ ScanEmpty
    \/ ScanNoMatch
    \/ ScanBeforeMatch
    \/ ScanAtStart

Spec == ScanInit /\ [][ScanNext]_vars

(***************************************************************************)
(* The driver: the line loop of try_main over standard input.              *)
(***************************************************************************)
Inputs == SeqUpTo(Chars \cup {Newline}, MaxInput)

\* Number of characters BufRead::read_line appends: up to and including
\* the first newline, or everything left when there is none.
RECURSIVE LineLen(_)
LineLen(s) ==
    IF s = <<>> THEN 0
    ELSE IF Head(s) = Newline THEN 1
    ELSE 1 + LineLen(Tail(s))

\* The escape sequence that ends a styled text.
Reset == "reset"

\* print!("{}", style.style(text)): the style's escape sequence (written
\* here as the style's name), the text, the reset sequence.
Styled(t, s) == <<s>> \o t \o <<Reset>>

\* The body of the for loop: what print! writes for a region.
Render(region) ==
    IF region.kind = "Unmatched" THEN region.text
    ELSE Styled(region.text, region.style)

DriverInit ==
    /\ styles \in SeqUpTo(MatchStyle, MaxDriverStyles)
    /\ input \in Inputs
    /\ stdin = input
    /\ buf = <<>>
    /\ out = <<>>
    /\ line = <<>>
    /\ text = <<>>
    /\ previous = None
    /\ regions = <<>>
    /\ ret = None
    /\ calls = 0
    /\ pc = "read"
    /\ IdleDesc /\ IdleCfg /\ IdleOpt

\* while read_line(&mut buf)? > 0: a line was read; line = &buf[..len - 1]
\* and parser.regions(line) starts the iteration.
ReadLine ==
    /\ pc = "read"
    /\ stdin # <<>>
    /\ buf' = buf \o Slice(stdin, 0, LineLen(stdin))
    /\ stdin' = SliceFrom(stdin, LineLen(stdin))
    /\ line' = Slice(buf', 0, Len(buf') - 1)
    /\ text' = line'
    /\ previous' = None
    /\ regions' = <<>>
    /\ ret' = None
    /\ calls' = 0
    /\ pc' = "regions"
    /\ UNCHANGED <<styles, input, out, setup>>

\* read_line returned 0 at the end of input: the loop ends, Ok(()).
ReadEof ==
    /\ pc = "read"
    /\ stdin = <<>>
    /\ pc' = "done"
    /\ UNCHANGED <<styles, line, scan, driver, setup>>

\* One iteration of the for loop: next() returned a region, print! it.
Printed ==
    /\ out' = out \o Render(Unwrap(ret'))
    /\ UNCHANGED <<styles, line, input, stdin, buf, pc, setup>>

PrintPrevious == NextPrevious /\ Printed
PrintNoMatch == NextNoMatch /\ Printed
PrintBeforeMatch == NextBeforeMatch /\ Printed
PrintAtStart == NextAtStart /\ Printed

\* next() returned None: println!() and buf.clear(), back to read_line.
EndLine ==
    /\ NextEmpty
    /\ out' = Append(out, Newline)
    /\ buf' = <<>>
    /\ pc' = "read"
    /\ UNCHANGED <<styles, line, input, stdin, setup>>

DriverNext ==
    \/ ReadLine
    \/ ReadEof
    \/ PrintPrevious
    \/ PrintNoMatch
    \/ PrintBeforeMatch
    \/ PrintAtStart
    \/ EndLine

DriverSpec == DriverInit /\ [][DriverNext]_vars

(***************************************************************************)
(* TryFrom<Description> for Style.  A description is a sequence of         *)
(* symbols: a word (written as one symbol), a space or a comma.            *)
(***************************************************************************)
\* Longest style description, in symbols.
MaxDesc == 5

Space == " "
Comma == ","
\* The words descriptions are drawn from; "zz" is no color or effect.
Words == {"red", "b:red", "green", "bold", "zz"}
Descriptions == SeqUpTo(Words \cup {Space, Comma}, MaxDesc)

\* Result<T, String>: the value of an Ok, the message of an Err.
Ok(v) == [ok |-> TRUE, value |-> <<v>>, error |-> <<>>]
Err(e) == [ok |-> FALSE, value |-> <<>>, error |-> e]

\* Style::new()
NewStyle == [fg |-> "none", bg |-> "none", effects |-> {}]

\* str::split(','): the parts between the commas, at least one.
RECURSIVE SplitComma(_)
SplitComma(d) ==
    IF \A i \in DOMAIN d : d[i] # Comma THEN <<d>>
    ELSE LET k == Min({i \in DOMAIN d : d[i] = Comma})
         IN <<SubSeq(d, 1, k - 1)>> \o SplitComma(SubSeq(d, k + 1, Len(d)))

\* str::trim(): the part without its leading and trailing white space.
RECURSIVE Trim(_)
Trim(p) ==
    IF p = <<>> THEN p
    ELSE IF Head(p) = Space THEN Trim(Tail(p))
    ELSE IF p[Len(p)] = Space THEN Trim(SubSeq(p, 1, Len(p) - 1))
    ELSE p

\* The arms of the match: what each recognized token sets.
Foreground ==
    [black |-> "black", blue |-> "blue", cyan |-> "cyan", green |-> "green",
     magenta |-> "magenta", purple |-> "magenta", red |-> "red",
     white |-> "white", yellow |-> "yellow"]
Background ==
    [b_black |-> "black", b_blue |-> "blue", b_cyan |-> "cyan",
     b_green |-> "green", b_magenta |-> "magenta", b_purple |-> "magenta",
     b_red |-> "red", b_white |-> "white", b_yellow |-> "yellow"]
BackgroundKey ==
    [w \in {"b:black", "b:blue", "b:cyan", "b:green", "b:magenta",
            "b:purple", "b:red", "b:white", "b:yellow"} |->
        CASE w = "b:black" -> "b_black" [] w = "b:blue" -> "b_blue"
          [] w = "b:cyan" -> "b_cyan" [] w = "b:green" -> "b_green"
          [] w = "b:magenta" -> "b_magenta" [] w = "b:purple" -> "b_purple"
          [] w = "b:red" -> "b_red" [] w = "b:white" -> "b_white"
          [] w = "b:yellow" -> "b_yellow"]
Effects ==
    [bold |-> "bold", italic |-> "italic", strike |-> "strikethrough",
     underline |-> "underline"]

\* The token is one of the arms of the match other than _.
Recognized(t) ==
    /\ Len(t) = 1
    /\ t[1] \in DOMAIN Foreground \cup DOMAIN BackgroundKey \cup DOMAIN Effects

\* style = style.<token>() for a recognized token.
ApplyToken(st, t) ==
    IF t[1] \in DOMAIN Foreground
    THEN [st EXCEPT !.fg = Foreground[t[1]]]
    ELSE IF t[1] \in DOMAIN BackgroundKey
    THEN [st EXCEPT !.bg = Background[BackgroundKey[t[1]]]]
    ELSE [st EXCEPT !.effects = @ \cup {Effects[t[1]]}]

\* format!("unknown style part '{}'", part)
UnknownPart(p) == <<"unknown style part">> \o p

\* The for loop to its end: Ok(style), or the Err of the first part that
\* is not recognized.
RECURSIVE FoldParts(_, _)
FoldParts(ps, st) ==
    IF ps = <<>> THEN Ok(st)
    ELSE IF Recognized(Trim(Head(ps)))
    THEN FoldParts(Tail(ps), ApplyToken(st, Trim(Head(ps))))
    ELSE Err(UnknownPart(Head(ps)))

\* Description(d).try_into()
TryFromDescription(d) == FoldParts(SplitComma(d), NewStyle)

DescInit ==
    /\ description \in Descriptions
    /\ parts = SplitComma(description)
    /\ style = NewStyle
    /\ sres = None
    /\ pc = "style"
    /\ styles = <<>>
    /\ IdleScan /\ IdleDriver /\ IdleCfg /\ IdleOpt

DescFrame == UNCHANGED <<styles, line, scan, driver, pc, cfgv, optv>>

\* One iteration whose part is recognized without skipping the rest: the
\* _ arm made to ignore the part.
PartUnknown_Ignored ==
    /\ pc = "style"
    /\ sres = None
    /\ parts # <<>>
    /\ ~Recognized(Trim(Head(parts)))
    /\ parts' = Tail(parts)
    /\ UNCHANGED <<description, style, sres>>
    /\ DescFrame

\* One iteration of the for loop with a recognized token.
PartKnown ==
    /\ pc = "style"
    /\ sres = None
    /\ parts # <<>>
    /\ Recognized(Trim(Head(parts)))
    /\ style' = ApplyToken(style, Trim(Head(parts)))
    /\ parts' = Tail(parts)
    /\ UNCHANGED <<description, sres>>
    /\ DescFrame

\* The _ arm: return Err naming the part.
PartUnknown ==
    /\ pc = "style"
    /\ sres = None
    /\ parts # <<>>
    /\ ~Recognized(Trim(Head(parts)))
    /\ sres' = Some(Err(UnknownPart(Head(parts))))
    /\ UNCHANGED <<description, parts, style>>
    /\ DescFrame

\* The loop is over: Ok(style).
PartsDone ==
    /\ pc = "style"
    /\ sres = None
    /\ parts = <<>>
    /\ sres' = Some(Ok(style))
    /\ UNCHANGED <<description, parts, style>>
    /\ DescFrame

DescNext ==
    \/ PartKnown
    \/ PartUnknown
    \/ PartsDone

DescSpec == DescInit /\ [][DescNext]_vars

(***************************************************************************)
(* config.rs: find_style and read_style_from_config.  A configuration is   *)
(* a sequence of lines, a line a sequence of symbols: a bracket, a double  *)
(* quote, a space, a comma, a word or a character of a pattern.            *)
(***************************************************************************)
\* Largest number of lines of a configuration file.
MaxConfigLines == 4

Quote == "\""
Open == "["
Close == "]"
\* The symbols \w matches: the section names.
WordSyms == {"foo", "qux", "bar", "diff"}

\* The lines configuration files are made of.
ConfigLines ==
    { <<Open, "foo", Close>>,                           \* [foo]
      <<Space, Open, "qux", Close, Space>>,             \*  [qux]
      <<Quote, "a", Quote, Space, "red">>,              \* "a" red
      <<Space, Quote, "b", Quote, Space, "green", Comma, "bold">>,
                                                        \*  "b" green,bold
      <<Quote, "(", Quote, Space, "red">>,              \* "(" red
      <<Quote, "a", Quote, Space, "zz">>,               \* "a" zz
      <<>>,                                             \* an empty line
      <<"red">> }                                       \* red
Configs == SeqUpTo(ConfigLines, MaxConfigLines)
SectionNames == {<<"foo">>, <<"bar">>}

\* The line without its leading white space: ^\s*
RECURSIVE SkipSpace(_)
SkipSpace(l) ==
    IF l # <<>> /\ Head(l) = Space THEN SkipSpace(Tail(l)) ELSE l

\* section.captures(line) for ^\s*\[(\w+)\]\s*$ : Some(name) or None.
SectionCaptures(l) ==
    LET t == Trim(l) IN
    IF /\ Len(t) >= 3
       /\ t[1] = Open
       /\ t[Len(t)] = Close
       /\ \A i \in 2..(Len(t) - 1) : t[i] \in WordSyms
    THEN Some(SubSeq(t, 2, Len(t) - 1))
    ELSE None

\* match_style.captures(line) for ^\s*"(.*)"\s*(.*)$ : the greedy first
\* group ends at the last double quote of the line.
MatchStyleCaptures(l) ==
    LET t == SkipSpace(l)
        quotes == {i \in DOMAIN t : t[i] = Quote}
    IN IF t # <<>> /\ t[1] = Quote /\ Cardinality(quotes) >= 2
       THEN Some([pattern |-> SubSeq(t, 2, Max(quotes) - 1),
                  description |->
                      SkipSpace(SubSeq(t, Max(quotes) + 1, Len(t)))])
       ELSE None

\* The atoms of a pattern source: a symbol, starred when * follows it.
RECURSIVE Atoms(_)
Atoms(src) ==
    IF src = <<>> THEN <<>>
    ELSE IF Len(src) >= 2 /\ src[2] = "*"
    THEN <<Star(src[1])>> \o Atoms(SubSeq(src, 3, Len(src)))
    ELSE <<Lit(src[1])>> \o Atoms(Tail(src))

\* Regex::new(source).map_err(|err| err.to_string()): an unclosed group
\* and a repetition of nothing do not compile.
RegexNew(src) ==
    LET anchored == src # <<>> /\ src[1] = "^"
        a == IF anchored THEN Tail(src) ELSE src
        dollar == a # <<>> /\ a[Len(a)] = "$"
        b == IF dollar THEN SubSeq(a, 1, Len(a) - 1) ELSE a
    IN IF \E i \in DOMAIN src : src[i] = "("
       THEN Err(<<"regex parse error: unclosed group">>)
       ELSE IF b # <<>> /\ b[1] = "*"
       THEN Err(<<"regex parse error: repetition operator missing expression">>)
       ELSE Ok(Re(anchored, Atoms(b), dollar))

\* The state of the loop of find_style.
Loop(lines, app, res, r) ==
    [lines |-> lines, append |-> app, result |-> res, ret |-> r]

\* One iteration of the for loop of find_style on the first line left,
\* the section test made whether or not the requested section is open.
LineStep_ParsesAnywhere(st, name) ==
    LET l == Head(st.lines)
        ms == MatchStyleCaptures(l)
        sec == SectionCaptures(l)
    IN IF IsSome(ms)
       THEN LET pattern == RegexNew(Unwrap(ms).pattern)
                sty == TryFromDescription(Unwrap(ms).description)
            IN IF ~pattern.ok
               THEN Loop(st.lines, st.append, st.result,
                         Some(Err(pattern.error)))
               ELSE IF ~sty.ok
               THEN Loop(st.lines, st.append, st.result, Some(Err(sty.error)))
               ELSE Loop(Tail(st.lines), st.append,
                         Append(st.result, [pattern |-> Unwrap(pattern.value),
                                            style |-> Unwrap(sty.value)]),
                         None)
       ELSE IF IsSome(sec)
       THEN Loop(Tail(st.lines), Unwrap(sec) = name, st.result, None)
       ELSE Loop(Tail(st.lines), st.append, st.result, None)

\* One iteration whose section header does not close the open section.
LineStep_NeverCloses(st, name) ==
    LET l == Head(st.lines)
        ms == MatchStyleCaptures(l)
        sec == SectionCaptures(l)
    IN IF st.append /\ IsSome(ms)
       THEN LET pattern == RegexNew(Unwrap(ms).pattern)
                sty == TryFromDescription(Unwrap(ms).description)
            IN IF ~pattern.ok
               THEN Loop(st.lines, st.append, st.result,
                         Some(Err(pattern.error)))
               ELSE IF ~sty.ok
               THEN Loop(st.lines, st.append, st.result, Some(Err(sty.error)))
               ELSE Loop(Tail(st.lines), st.append,
                         Append(st.result, [pattern |-> Unwrap(pattern.value),
                                            style |-> Unwrap(sty.value)]),
                         None)
       ELSE IF IsSome(sec)
       THEN Loop(Tail(st.lines), st.append \/ Unwrap(sec) = name,
                 st.result, None)
       ELSE Loop(Tail(st.lines), st.append, st.result, None)

\* One iteration of the for loop of find_style on the first line left.
LineStep(st, name) ==
    LET l == Head(st.lines)
        ms == MatchStyleCaptures(l)
        sec == SectionCaptures(l)
    IN IF st.append /\ IsSome(ms)
       THEN LET pattern == RegexNew(Unwrap(ms).pattern)
                sty == TryFromDescription(Unwrap(ms).description)
            IN IF ~pattern.ok
               THEN Loop(st.lines, st.append, st.result,
                         Some(Err(pattern.error)))
               ELSE IF ~sty.ok
               THEN Loop(st.lines, st.append, st.result, Some(Err(sty.error)))
               ELSE Loop(Tail(st.lines), st.append,
                         Append(st.result, [pattern |-> Unwrap(pattern.value),
                                            style |-> Unwrap(sty.value)]),
                         None)
       ELSE IF IsSome(sec)
       THEN Loop(Tail(st.lines), Unwrap(sec) = name, st.result, None)
       ELSE Loop(Tail(st.lines), st.append, st.result, None)

\* The loop from state st to the Result find_style returns.
RECURSIVE FindStyleFrom(_, _)
FindStyleFrom(st, name) ==
    IF IsSome(st.ret) THEN Unwrap(st.ret)
    ELSE IF st.lines = <<>> THEN Ok(st.result)
    ELSE FindStyleFrom(LineStep(st, name), name)

find_style(cfg, name) == FindStyleFrom(Loop(cfg, FALSE, <<>>, None), name)

\* The environment of read_style_from_config: whether XDG_CONFIG_HOME and
\* HOME are set, what lies at the two candidate paths, and the text of the
\* configuration file when the resolved path holds one.
XdgPath == "$XDG_CONFIG_HOME/chromazone/chromazone.styles"
HomePath == "$HOME/.config/chromazone/chromazone.styles"
FileStates == {"missing", "directory", "unreadable", "file"}

\* The match on (var("XDG_CONFIG_HOME"), var("HOME")) and the two pushes.
ResolvePath(e) ==
    IF e.xdg THEN Some(XdgPath)
    ELSE IF e.home THEN Some(HomePath)
    ELSE None

\* What lies at the resolved path.
Resolved(e) ==
    IF IsSome(ResolvePath(e)) THEN e.files[Unwrap(ResolvePath(e))]
    ELSE "missing"

\* The environments over the configuration texts cs; a path that is not
\* consulted holds nothing.
EnvsOver(cs) ==
    {e \in [xdg : BOOLEAN, home : BOOLEAN,
            files : [{XdgPath, HomePath} -> FileStates],
            content : cs] :
        /\ \A p \in {XdgPath, HomePath} :
              ResolvePath(e) # Some(p) => e.files[p] = "missing"
        /\ Resolved(e) # "file" => e.content = <<>>}
Envs == EnvsOver(Configs)

\* std::fs::read_to_string(&path).map_err(|err| err.to_string())
ReadError == <<"read_to_string failed">>

\* read_style_from_config(style) run to its end.
read_style_from_config(e, name) ==
    IF ResolvePath(e) = None THEN Ok(<<>>)
    ELSE IF Resolved(e) \in {"missing", "directory"} THEN Ok(<<>>)
    ELSE IF Resolved(e) = "unreadable" THEN Err(ReadError)
    ELSE find_style(e.content, name)

ConfigInit ==
    /\ env \in Envs
    /\ wanted \in SectionNames
    /\ config = <<>>
    /\ append = FALSE
    /\ result = <<>>
    /\ cres = None
    /\ pc = "resolve"
    /\ styles = <<>>
    /\ IdleScan /\ IdleDriver /\ IdleDesc /\ IdleOpt

ConfigFrame == UNCHANGED <<styles, line, scan, driver, descv, optv>>

\* Neither XDG_CONFIG_HOME nor HOME is set: Ok(Vec::new()).
ReadNoEnv ==
    /\ pc = "resolve"
    /\ ResolvePath(env) = None
    /\ cres' = Some(Ok(<<>>))
    /\ pc' = "loaded"
    /\ UNCHANGED <<env, config, wanted, append, result>>
    /\ ConfigFrame

\* The file read without the exists/is_file test: a missing file fails.
ReadNoFile_Fails ==
    /\ pc = "resolve"
    /\ IsSome(ResolvePath(env))
    /\ Resolved(env) \in {"missing", "directory"}
    /\ cres' = Some(Err(ReadError))
    /\ pc' = "loaded"
    /\ UNCHANGED <<env, config, wanted, append, result>>
    /\ ConfigFrame

\* path.exists() && path.is_file() is false: Ok(Vec::new()).
ReadNoFile ==
    /\ pc = "resolve"
    /\ IsSome(ResolvePath(env))
    /\ Resolved(env) \in {"missing", "directory"}
    /\ cres' = Some(Ok(<<>>))
    /\ pc' = "loaded"
    /\ UNCHANGED <<env, config, wanted, append, result>>
    /\ ConfigFrame

\* read_to_string fails: its error is returned.
ReadFails ==
    /\ pc = "resolve"
    /\ IsSome(ResolvePath(env))
    /\ Resolved(env) = "unreadable"
    /\ cres' = Some(Err(ReadError))
    /\ pc' = "loaded"
    /\ UNCHANGED <<env, config, wanted, append, result>>
    /\ ConfigFrame

\* The file is read and find_style starts on its lines.
ReadConfig ==
    /\ pc = "resolve"
    /\ IsSome(ResolvePath(env))
    /\ Resolved(env) = "file"
    /\ config' = env.content
    /\ append' = FALSE
    /\ result' = <<>>
    /\ pc' = "find"
    /\ UNCHANGED <<env, wanted, cres>>
    /\ ConfigFrame

\* The loop of find_style moves by one iteration.
Iterate ==
    LET st == LineStep(Loop(config, append, result, None), wanted) IN
    /\ config' = st.lines
    /\ append' = st.append
    /\ result' = st.result
    /\ cres' = st.ret
    /\ pc' = IF IsSome(st.ret) THEN "loaded" ELSE "find"
    /\ UNCHANGED <<env, wanted>>
    /\ ConfigFrame

InSection(l) == append /\ IsSome(MatchStyleCaptures(l))

\* A pattern line of the requested section: a match style is pushed.
LineMatchStyle ==
    /\ pc = "find"
    /\ config # <<>>
    /\ InSection(Head(config))
    /\ RegexNew(Unwrap(MatchStyleCaptures(Head(config))).pattern).ok
    /\ TryFromDescription(
           Unwrap(MatchStyleCaptures(Head(config))).description).ok
    /\ Iterate

\* A pattern line of the requested section whose pattern does not compile.
LineBadPattern ==
    /\ pc = "find"
    /\ config # <<>>
    /\ InSection(Head(config))
    /\ ~RegexNew(Unwrap(MatchStyleCaptures(Head(config))).pattern).ok
    /\ Iterate

\* A pattern line of the requested section whose description fails.
LineBadStyle ==
    /\ pc = "find"
    /\ config # <<>>
    /\ InSection(Head(config))
    /\ RegexNew(Unwrap(MatchStyleCaptures(Head(config))).pattern).ok
    /\ ~TryFromDescription(
            Unwrap(MatchStyleCaptures(Head(config))).description).ok
    /\ Iterate

\* A section header: append = (its name is the requested one).
LineSection ==
    /\ pc = "find"
    /\ config # <<>>
    /\ ~InSection(Head(config))
    /\ IsSome(SectionCaptures(Head(config)))
    /\ Iterate

\* Any other line is passed over.
LineOther ==
    /\ pc = "find"
    /\ config # <<>>
    /\ ~InSection(Head(config))
    /\ SectionCaptures(Head(config)) = None
    /\ Iterate

\* The lines are exhausted: Ok(result).
LinesDone ==
    /\ pc = "find"
    /\ config = <<>>
    /\ cres' = Some(Ok(result))
    /\ pc' = "loaded"
    /\ UNCHANGED <<env, config, wanted, append, result>>
    /\ ConfigFrame

ConfigNext ==
    \/ ReadNoEnv
    \/ ReadNoFile
    \/ ReadFails
    \/ ReadConfig
    \/ LineMatchStyle
    \/ LineBadPattern
    \/ LineBadStyle
    \/ LineSection
    \/ LineOther
    \/ LinesDone

ConfigSpec == ConfigInit /\ [][ConfigNext]_vars

(***************************************************************************)
(* Opts::parse, try_main and main: the whole program.                      *)
(***************************************************************************)
\* Largest number of option groups on the command line.
MaxGroups == 2

\* The command lines are made of these groups of arguments.
ArgGroups ==
    { <<"--help">>, <<"-h">>,
      <<"--style", "foo">>, <<"-s", "diff">>, <<"-s", "qux">>, <<"--style">>,
      <<"--match", "a", "red">>, <<"-m", "b", "green,bold">>,
      <<"-m", "(", "red">>, <<"--match", "a", "zz">>, <<"-m", "a">>,
      <<"file">> }

RECURSIVE Flatten(_)
Flatten(gs) == IF gs = <<>> THEN <<>> ELSE Head(gs) \o Flatten(Tail(gs))

CommandLines == {Flatten(gs) : gs \in SeqUpTo(ArgGroups, MaxGroups)}

\* The symbols of an argument: a word or a character is one symbol.
ArgSyms(arg) ==
    IF arg = "green,bold" THEN <<"green", Comma, "bold">> ELSE <<arg>>

\* The configuration file of the program's environment.
MainConfig ==
    << <<Open, "foo", Close>>,
       <<Quote, "b", Quote, Space, "green", Comma, "bold">>,
       <<Open, "qux", Close>>,
       <<Quote, "(", Quote, Space, "red">>,
       <<Open, "diff", Close>>,
       <<Quote, "a", Quote, Space, "b:red">> >>
MainEnvs == EnvsOver({<<>>, MainConfig})
MainInputs == {<<"a", "b", Newline>>, <<"b">>}

\* styles.rs, diff(): the built-in preset for `diff -u` output.
DiffPreset ==
    << [pattern |-> Re(TRUE, <<Lit("+"), Star(".")>>, TRUE),
        style |-> [NewStyle EXCEPT !.fg = "green"]],
       [pattern |-> Re(TRUE, <<Lit("-"), Star(".")>>, TRUE),
        style |-> [NewStyle EXCEPT !.fg = "red"]],
       [pattern |-> Re(TRUE, <<Lit("@"), Lit("@"), Star(".")>>, TRUE),
        style |-> [NewStyle EXCEPT !.fg = "yellow"]] >>

HelpFlags == {"--help", "-h"}
StyleFlags == {"--style", "-s"}
MatchFlags == {"--match", "-m"}
MissingStyle == <<"expected style after --style/-s">>
MissingMatch == <<"expected pattern and style after --match/-m">>

\* The state of the loop of Opts::parse.
Parse(as, h, sts, err) ==
    [args |-> as, help |-> h, styles |-> sts, err |-> err]

\* One iteration in which --match replaces the styles loaded so far.
ParseStep_MatchReplaces(st, e) ==
    LET arg == Head(st.args)
        rest == Tail(st.args)
    IN IF arg \in MatchFlags /\ Len(rest) >= 2
          /\ RegexNew(ArgSyms(rest[1])).ok
          /\ TryFromDescription(ArgSyms(rest[2])).ok
       THEN Parse(SubSeq(rest, 3, Len(rest)), st.help,
                  <<[pattern |-> Unwrap(RegexNew(ArgSyms(rest[1])).value),
                     style |-> Unwrap(
                         TryFromDescription(ArgSyms(rest[2])).value)]>>,
                  None)
       ELSE IF arg \in HelpFlags THEN Parse(rest, TRUE, st.styles, None)
       ELSE IF arg \in StyleFlags
       THEN IF rest = <<>> THEN Parse(rest, st.help, st.styles,
                                      Some(MissingStyle))
            ELSE LET r == read_style_from_config(e, ArgSyms(Head(rest)))
                 IN IF r.ok
                    THEN Parse(Tail(rest), st.help,
                               st.styles \o Unwrap(r.value), None)
                    ELSE Parse(Tail(rest), st.help, st.styles, Some(r.error))
       ELSE IF arg \in MatchFlags
       THEN IF Len(rest) < 2
            THEN Parse(<<>>, st.help, st.styles, Some(MissingMatch))
            ELSE IF ~RegexNew(ArgSyms(rest[1])).ok
            THEN Parse(SubSeq(rest, 3, Len(rest)), st.help, st.styles,
                       Some(RegexNew(ArgSyms(rest[1])).error))
            ELSE Parse(SubSeq(rest, 3, Len(rest)), st.help, st.styles,
                       Some(TryFromDescription(ArgSyms(rest[2])).error))
       ELSE Parse(rest, st.help, st.styles, None)

\* One iteration of the while loop of Opts::parse: the next argument and
\* the values its flag takes.
ParseStep(st, e) ==
    LET arg == Head(st.args)
        rest == Tail(st.args)
    IN IF arg \in HelpFlags THEN Parse(rest, TRUE, st.styles, None)
       ELSE IF arg \in StyleFlags
       THEN IF rest = <<>> THEN Parse(rest, st.help, st.styles,
                                      Some(MissingStyle))
            ELSE LET r == read_style_from_config(e, ArgSyms(Head(rest)))
                 IN IF r.ok
                    THEN Parse(Tail(rest), st.help,
                               st.styles \o Unwrap(r.value), None)
                    ELSE Parse(Tail(rest), st.help, st.styles, Some(r.error))
       ELSE IF arg \in MatchFlags
       THEN IF Len(rest) < 2
            THEN Parse(<<>>, st.help, st.styles, Some(MissingMatch))
            ELSE LET pattern == RegexNew(ArgSyms(rest[1]))
                     sty == TryFromDescription(ArgSyms(rest[2]))
                     left == SubSeq(rest, 3, Len(rest))
                 IN IF ~pattern.ok
                    THEN Parse(left, st.help, st.styles, Some(pattern.error))
                    ELSE IF ~sty.ok
                    THEN Parse(left, st.help, st.styles, Some(sty.error))
                    ELSE Parse(left, st.help,
                               Append(st.styles,
                                      [pattern |-> Unwrap(pattern.value),
                                       style |-> Unwrap(sty.value)]),
                               None)
       ELSE Parse(rest, st.help, st.styles, None)

\* The usage line and the text main writes before an error.
Usage == "Usage: <prog> | cz [--style <style>] [-m|--match <pattern> <description>] [-h|--help]"
ErrorPrefix == "error"

MainInit ==
    /\ argv \in CommandLines
    /\ args = argv
    /\ help = FALSE
    /\ styles = <<>>
    /\ perr = None
    /\ exit = None
    /\ stderr = <<>>
    /\ env \in MainEnvs
    /\ input \in MainInputs
    /\ stdin = input
    /\ buf = <<>>
    /\ out = <<>>
    /\ pc = "parse"
    /\ config = <<>>
    /\ wanted = ""
    /\ append = FALSE
    /\ result = <<>>
    /\ cres = None
    /\ IdleScan /\ IdleDesc

ParseFrame ==
    UNCHANGED <<line, scan, driver, descv, cfgv, argv, exit, stderr>>

\* The loop of Opts::parse moves by one iteration; an Err leaves parse,
\* try_main and the match in main.
Consume ==
    LET st == ParseStep(Parse(args, help, styles, None), env) IN
    /\ args' = st.args
    /\ help' = st.help
    /\ styles' = st.styles
    /\ perr' = st.err
    /\ pc' = IF IsSome(st.err) THEN "failed" ELSE "parse"
    /\ ParseFrame

AtArg == pc = "parse" /\ args # <<>>

\* --help or -h
ArgHelp == AtArg /\ Head(args) \in HelpFlags /\ Consume

\* --style or -s with a name whose lookup succeeds
ArgStyle ==
    /\ AtArg
    /\ Head(args) \in StyleFlags
    /\ Len(args) >= 2
    /\ read_style_from_config(env, ArgSyms(args[2])).ok
    /\ Consume

\* --style or -s as the last argument
ArgStyleMissing ==
    /\ AtArg
    /\ Head(args) \in StyleFlags
    /\ Len(args) = 1
    /\ Consume

\* --style or -s with a name whose lookup fails
ArgStyleFails ==
    /\ AtArg
    /\ Head(args) \in StyleFlags
    /\ Len(args) >= 2
    /\ ~read_style_from_config(env, ArgSyms(args[2])).ok
    /\ Consume

\* --match or -m with a pattern and a description that parse
ArgMatch ==
    /\ AtArg
    /\ Head(args) \in MatchFlags
    /\ Len(args) >= 3
    /\ RegexNew(ArgSyms(args[2])).ok
    /\ TryFromDescription(ArgSyms(args[3])).ok
    /\ Consume

\* --match or -m followed by fewer than two arguments
ArgMatchMissing ==
    /\ AtArg
    /\ Head(args) \in MatchFlags
    /\ Len(args) < 3
    /\ Consume

\* --match or -m with a pattern that does not compile
ArgMatchBadPattern ==
    /\ AtArg
    /\ Head(args) \in MatchFlags
    /\ Len(args) >= 3
    /\ ~RegexNew(ArgSyms(args[2])).ok
    /\ Consume

\* --match or -m with a description that has an unknown token
ArgMatchBadStyle ==
    /\ AtArg
    /\ Head(args) \in MatchFlags
    /\ Len(args) >= 3
    /\ RegexNew(ArgSyms(args[2])).ok
    /\ ~TryFromDescription(ArgSyms(args[3])).ok
    /\ Consume

\* Any other argument is passed over.
ArgOther ==
    /\ AtArg
    /\ Head(args) \notin HelpFlags \cup StyleFlags \cup MatchFlags
    /\ Consume

\* Ok(opts) with opts.help: the usage is printed, try_main returns Ok(())
\* and main ExitCode::SUCCESS.
ShowHelp ==
    /\ pc = "parse"
    /\ args = <<>>
    /\ help
    /\ out' = out \o <<Usage, Newline>>
    /\ exit' = Some("SUCCESS")
    /\ pc' = "exited"
    /\ UNCHANGED <<styles, line, scan, input, stdin, buf, descv, cfgv,
                   argv, args, help, perr, stderr>>

\* Ok(opts) without opts.help: the buffer and the parser are made and the
\* line loop starts.
StartLoop ==
    /\ pc = "parse"
    /\ args = <<>>
    /\ ~help
    /\ pc' = "read"
    /\ UNCHANGED <<styles, line, scan, driver, setup>>

\* An Err that is not acted on: the line loop starts all the same.
MainFail_Continues ==
    /\ pc = "failed"
    /\ pc' = "read"
    /\ UNCHANGED <<styles, line, scan, driver, setup>>

\* main, Err(err): the error is written to standard error and the exit
\* code is FAILURE.
MainFail ==
    /\ pc = "failed"
    /\ stderr' = stderr \o <<ErrorPrefix>> \o Unwrap(perr) \o <<Newline>>
    /\ exit' = Some("FAILURE")
    /\ pc' = "exited"
    /\ UNCHANGED <<styles, line, scan, driver, descv, cfgv, argv, args,
                   help, perr>>

\* main, Ok(()) after the line loop: ExitCode::SUCCESS.
MainOk ==
    /\ pc = "done"
    /\ exit' = Some("SUCCESS")
    /\ pc' = "exited"
    /\ UNCHANGED <<styles, line, scan, driver, descv, cfgv, argv, args,
                   help, perr, stderr>>

MainNext ==
    \/ ArgHelp
    \/ ArgStyle
    \/ ArgStyleMissing
    \/ ArgStyleFails
    \/ ArgMatch
    \/ ArgMatchMissing
    \/ ArgMatchBadPattern
    \/ ArgMatchBadStyle
    \/ ArgOther
    \/ ShowHelp
    \/ StartLoop
    \/ MainFail
    \/ MainOk
    \/ ReadLine
    \/ ReadEof
    \/ PrintPrevious
    \/ PrintNoMatch
    \/ PrintBeforeMatch
    \/ PrintAtStart
    \/ EndLine

MainSpec == MainInit /\ [][MainNext]_vars

(***************************************************************************)
(* Properties.                                                             *)
(***************************************************************************)
\* The texts of a sequence of regions, concatenated in order.
RECURSIVE Concat(_)
Concat(rs) == IF rs = <<>> THEN <<>> ELSE Head(rs).text \o Concat(Tail(rs))

\* The buffered match text, empty when nothing is buffered.
PendingText == IF IsSome(previous) THEN Unwrap(previous).text ELSE <<>>

\* next() has been called and its last call returned None.
Ended == calls > 0 /\ ret = None

\* Offsets at which some pattern of the set has a match in t.
AllStarts(set, t) ==
    UNION {MatchStarts(set[i].pattern, t) : i \in DOMAIN set}

\* C1 (losslessness): at every step the regions emitted so far, then the
\* buffered match text, then the remaining text spell the original line;
\* once next() has returned None the emitted regions alone spell it.
C1_Lossless ==
    /\ Concat(regions) \o PendingText \o text = line
    /\ Ended => Concat(regions) = line

\* A line scanned to its end as Unmatched, Matched, Unmatched.
C1_Witness ==
    /\ Ended
    /\ Len(regions) = 3
    /\ regions[1].kind = "Unmatched"
    /\ regions[2].kind = "Matched"
    /\ regions[3].kind = "Unmatched"

\* The termination measure of next(): it decreases with every region.
Measure(t, p) == 2 * Len(t) + (IF IsSome(p) THEN 1 ELSE 0)

\* C2 (forward progress): every call of next() that returns a region
\* strictly decreases the remaining work (the remaining text, then the
\* buffered match), so that next() eventually returns None; in particular
\* a zero-width match never leaves the remaining text unadvanced.
C2_Progress ==
    [][IsSome(ret') => Measure(text', previous') < Measure(text, previous)]_vars

\* Standard output without the styling escape sequences.
StripEscapes(o) == SelectSeq(o, LAMBDA c : c \in Chars \cup {Newline})

\* The input with every line terminated: its content, then one newline.
Terminated(i) ==
    IF i = <<>> \/ i[Len(i)] = Newline THEN i ELSE Append(i, Newline)

\* C3 (driver output preserves line content): when the input is exhausted
\* the output, ignoring styling escapes, is every input line's content
\* followed by one newline, also for a last line without a newline.
C3_OutputPreservesLines ==
    pc = "done" => StripEscapes(out) = Terminated(input)

\* The leftmost match of pattern i of the set in t (i matches in t).
Leftmost(set, i, t) ==
    LET st == Min(MatchStarts(set[i].pattern, t))
    IN [start |-> st, end |-> MatchEnd(set[i].pattern, 1, t, st)]

\* C4 (leftmost wins): find_match on the remaining text is None iff no
\* pattern of the set matches anywhere in it, and otherwise its start
\* offset is the smallest start offset of any match of any pattern,
\* whatever the order of the patterns.
C4_LeftmostWins ==
    LET r == find_match(styles, text) IN
    /\ r = None <=> AllStarts(styles, text) = {}
    /\ IsSome(r) => Unwrap(r).m.start = Min(AllStarts(styles, text))

\* The second pattern matches before the first one does, and the first
\* Matched region is the second pattern's match.
C4_Witness ==
    /\ Len(styles) = 2
    /\ styles[1].style # styles[2].style
    /\ MatchStarts(styles[1].pattern, line) # {}
    /\ MatchStarts(styles[2].pattern, line) # {}
    /\ Leftmost(styles, 2, line).start < Leftmost(styles, 1, line).start
    /\ Leftmost(styles, 2, line).start > 0
    /\ Len(regions) >= 2
    /\ regions[2] = Matched(AsStr(line, Leftmost(styles, 2, line)),
                            styles[2].style)

\* The patterns whose leftmost match in t starts at the smallest offset.
Tied(set, t) ==
    {i \in DOMAIN set :
        /\ MatchStarts(set[i].pattern, t) # {}
        /\ Leftmost(set, i, t).start = Min(AllStarts(set, t))}

\* C5 (tie-break): when next() scans a text in which two or more patterns
\* have their leftmost match at the same, smallest start offset,
\* find_match returns the match and style of the earliest listed of them,
\* and that span and style are what is emitted (at offset 0) or buffered.
C5_TieBreak ==
    [][(/\ calls' = calls + 1
        /\ previous = None
        /\ text # <<>>
        /\ Cardinality(Tied(styles, text)) >= 2)
       => LET i == Min(Tied(styles, text))
              m == Leftmost(styles, i, text)
          IN /\ find_match(styles, text)
                    = Some([m |-> m, style |-> styles[i].style])
             /\ IF m.start = 0
                THEN ret' = Some(Matched(AsStr(text, m), styles[i].style))
                ELSE previous'
                        = Some([text |-> AsStr(text, m),
                                style |-> styles[i].style])]_vars

\* Two patterns with different styles and different spans tie at offset 0
\* and the first region is the first pattern's.
C5_Witness ==
    /\ Len(styles) = 2
    /\ styles[1].style # styles[2].style
    /\ Tied(styles, line) = {1, 2}
    /\ Leftmost(styles, 1, line).start = 0
    /\ Leftmost(styles, 1, line).end # Leftmost(styles, 2, line).end
    /\ Len(regions) >= 1
    /\ regions[1] = Matched(AsStr(line, Leftmost(styles, 1, line)),
                            styles[1].style)

\* C6 (pending-match ordering): when the earliest match in the remaining
\* text starts at offset > 0, next() returns the text before it as an
\* Unmatched region, buffers the match's span and style and resumes at the
\* match's end; the next call returns exactly the buffered span and style
\* as a Matched region and leaves the remaining text alone; the buffered
\* span lies between the emitted regions and the remaining text.
C6_PendingOrder ==
    /\ [][(/\ calls' = calls + 1
           /\ previous = None
           /\ text # <<>>
           /\ AllStarts(styles, text) # {}
           /\ Min(AllStarts(styles, text)) > 0)
          => LET f == Unwrap(find_match(styles, text)) IN
             /\ ret' = Some(Unmatched(Slice(text, 0, f.m.start)))
             /\ previous' = Some([text |-> Slice(text, f.m.start, f.m.end),
                                  style |-> f.style])
             /\ text' = SliceFrom(text, f.m.end)]_vars
    /\ [][(calls' = calls + 1 /\ IsSome(previous))
          => /\ ret' = Some(Matched(Unwrap(previous).text,
                                    Unwrap(previous).style))
             /\ previous' = None
             /\ text' = text]_vars
    /\ [](IsSome(previous)
            => Concat(regions) \o Unwrap(previous).text \o text = line)

\* An Unmatched region, then the non-empty match that was buffered, with
\* text left to scan after it.
C6_Witness ==
    /\ Len(regions) = 2
    /\ regions[1].kind = "Unmatched"
    /\ regions[2].kind = "Matched"
    /\ regions[2].text # <<>>
    /\ text # <<>>
    /\ previous = None

\* C7 (no-match identity): for a non-empty line in which no pattern of
\* the set matches, the first call of next() returns one Unmatched region
\* holding the whole line and every later call returns None.
C7_NoMatchIdentity ==
    (line # <<>> /\ AllStarts(styles, line) = {})
    => /\ calls = 0 => regions = <<>>
       /\ calls >= 1 => /\ regions = <<Unmatched(line)>>
                        /\ text = <<>>
                        /\ previous = None
       /\ calls = 1 => ret = Some(Unmatched(line))
       /\ calls >= 2 => ret = None

\* A non-empty line and a non-empty set none of whose patterns match it,
\* scanned to the end.
C7_Witness ==
    /\ line # <<>>
    /\ styles # <<>>
    /\ AllStarts(styles, line) = {}
    /\ calls >= 2

\* C8 (empty line): scanning the empty line yields no region, whatever
\* the pattern set: every call of next() returns None.
C8_EmptyLine ==
    line = <<>> => regions = <<>> /\ ret = None /\ text = <<>>

\* The empty line scanned with a pattern that matches the empty string.
C8_Witness ==
    /\ line = <<>>
    /\ calls >= 1
    /\ \E i \in DOMAIN styles : 0 \in MatchStarts(styles[i].pattern, <<>>)

\* C9 (matched regions are non-empty): every Matched region returned by
\* next() has non-empty text.
C9_MatchedNonEmpty ==
    \A i \in DOMAIN regions :
        regions[i].kind = "Matched" => regions[i].text # <<>>

\* C10 (adjacent matches): no Unmatched region with empty text is ever
\* returned, and when next() has just returned a Matched region and the
\* next match starts right where it ended, the next call returns a Matched
\* region too.
C10_AdjacentMatches ==
    /\ [](\A i \in DOMAIN regions :
            regions[i].kind = "Unmatched" => regions[i].text # <<>>)
    /\ [][(/\ calls' = calls + 1
           /\ IsSome(ret)
           /\ Unwrap(ret).kind = "Matched"
           /\ text # <<>>
           /\ AllStarts(styles, text) # {}
           /\ Min(AllStarts(styles, text)) = 0)
          => /\ IsSome(ret')
             /\ Unwrap(ret').kind = "Matched"
             /\ regions' = Append(regions, Unwrap(ret'))]_vars

\* The line "ab" as two consecutive non-empty Matched regions of two
\* different patterns.
C10_Witness ==
    /\ Len(regions) = 2
    /\ regions[1].kind = "Matched"
    /\ regions[2].kind = "Matched"
    /\ regions[1].text # <<>>
    /\ regions[2].text # <<>>
    /\ regions[1].style # regions[2].style
    /\ Ended

\* Offset in the line at which region i starts.
RegionOffset(i) == Len(Concat(SubSeq(regions, 1, i - 1)))

\* Every pattern of the set that carries style s is anchored with ^.
AnchoredOnly(s) ==
    \A k \in DOMAIN styles :
        styles[k].style = s => styles[k].pattern.anchored

\* C19 (line-start anchoring): a Matched region that can only come from a
\* pattern anchored with ^ is the first region of its line and begins at
\* offset 0 of the line.
C19_LineStartAnchoring ==
    \A i \in DOMAIN regions :
        (regions[i].kind = "Matched" /\ AnchoredOnly(regions[i].style))
        => i = 1 /\ RegionOffset(i) = 0

\* C20 (Exhausted is absorbing): next() returns None only with an empty
\* buffer and an empty remaining text, and after it has returned None
\* every later call returns None and changes nothing of the scanner.
C20_ExhaustedAbsorbing ==
    /\ [](Ended => previous = None /\ text = <<>>)
    /\ [][(Ended /\ calls' = calls + 1)
          => /\ ret' = None
             /\ UNCHANGED <<text, previous, regions>>]_vars

\* A line whose last region came out of the buffer, with next() called
\* twice more after it.
C20_Witness ==
    /\ Ended
    /\ Len(regions) = 2
    /\ regions[1].kind = "Unmatched"
    /\ regions[2].kind = "Matched"
    /\ regions[2].text # <<>>
    /\ calls = 4

\* The parts of description d whose token is not recognized.
BadParts(d) ==
    {i \in DOMAIN SplitComma(d) :
        Trim(SplitComma(d)[i])
            \notin {<<w>> : w \in {"black", "b:black", "blue", "b:blue",
                "cyan", "b:cyan", "green", "b:green", "magenta",
                "b:magenta", "purple", "b:purple", "red", "b:red", "white",
                "b:white", "yellow", "b:yellow", "bold", "italic", "strike",
                "underline"}}}

\* C16 (style parsing is all or nothing): the parse returns a Style iff
\* every comma-separated token, trimmed, is a recognized name; otherwise
\* it returns no Style and an error naming the first part that is not
\* recognized, whatever valid tokens precede or follow it.
C16_AllOrNothing ==
    IsSome(sres) =>
        LET r == Unwrap(sres) IN
        /\ r.ok <=> BadParts(description) = {}
        /\ r.ok => r.value = <<style>> /\ parts = <<>>
        /\ ~r.ok =>
            /\ r.value = <<>>
            /\ r.error = <<"unknown style part">>
                  \o SplitComma(description)[Min(BadParts(description))]
        /\ r = TryFromDescription(description)

\* A failed parse whose bad token has a valid token before and after it.
C16_Witness ==
    /\ IsSome(sres)
    /\ ~Unwrap(sres).ok
    /\ Len(SplitComma(description)) = 3
    /\ BadParts(description) = {2}
    /\ SplitComma(description)[2] = <<"zz">>
    /\ Unwrap(sres).error = <<"unknown style part", "zz">>

\* The name of the section line i of configuration c lies in: that of the
\* last section header before it, None before the first header.
SectionAt(c, i) ==
    LET hs == {j \in 1..(i - 1) : IsSome(SectionCaptures(c[j]))}
    IN IF hs = {} THEN None ELSE SectionCaptures(c[Max(hs)])

\* The pattern lines of c that lie under a header named name.
PatternLinesUnder(c, name) ==
    {i \in DOMAIN c :
        IsSome(MatchStyleCaptures(c[i])) /\ SectionAt(c, i) = Some(name)}

\* The match style pattern line l stands for.
MatchStyleOf(l) ==
    [pattern |-> Unwrap(RegexNew(Unwrap(MatchStyleCaptures(l)).pattern).value),
     style |-> Unwrap(TryFromDescription(
                   Unwrap(MatchStyleCaptures(l)).description).value)]

\* The match styles of the lines of c at the indexes S, in line order.
RECURSIVE InOrder(_, _)
InOrder(c, S) ==
    IF S = {} THEN <<>>
    ELSE <<MatchStyleOf(c[Min(S)])>> \o InOrder(c, S \ {Min(S)})

\* find_style ran on the file's text and returned.
Loaded == pc = "loaded" /\ Resolved(env) = "file" /\ IsSome(cres)

\* C14 (section isolation and order): a successful find_style returns
\* exactly the match styles of the pattern lines under a header with the
\* requested name, in line order; pattern lines under another header or
\* before the first header contribute nothing.
C14_SectionIsolation ==
    (Loaded /\ Unwrap(cres).ok)
    => Unwrap(cres).value
          = <<InOrder(env.content, PatternLinesUnder(env.content, wanted))>>

\* A file with a pattern line before the first header, one under the
\* requested section and one under another section: one style is returned.
C14_Witness ==
    /\ Loaded
    /\ Unwrap(cres).ok
    /\ Len(Unwrap(Unwrap(cres).value)) = 1
    /\ Len(env.content) = 4
    /\ IsSome(MatchStyleCaptures(env.content[1]))
    /\ SectionCaptures(env.content[2]) = Some(wanted)
    /\ IsSome(MatchStyleCaptures(env.content[3]))
    /\ IsSome(SectionCaptures(env.content[4]))
    /\ SectionCaptures(env.content[4]) # Some(wanted)

\* The same with two pattern lines under the requested section, returned
\* in line order.
C14_WitnessOrder ==
    /\ Loaded
    /\ Unwrap(cres).ok
    /\ Len(Unwrap(Unwrap(cres).value)) = 2
    /\ Unwrap(Unwrap(cres).value)[1] # Unwrap(Unwrap(cres).value)[2]

\* C15 (an absent section or a missing configuration is no error): when
\* neither variable is set, when the resolved path holds no file, or when
\* no header of the file carries the requested name, the lookup returns
\* Ok with an empty pattern set.
C15_AbsentIsEmpty ==
    (/\ pc = "loaded"
     /\ \/ ResolvePath(env) = None
        \/ Resolved(env) \in {"missing", "directory"}
        \/ /\ Resolved(env) = "file"
           /\ \A i \in DOMAIN env.content :
                 SectionCaptures(env.content[i]) # Some(wanted))
    => cres = Some(Ok(<<>>))

\* A file with another section holding a pattern line, asked for a section
\* it does not have.
C15_Witness ==
    /\ Loaded
    /\ cres = Some(Ok(<<>>))
    /\ \E i \in DOMAIN env.content : IsSome(SectionCaptures(env.content[i]))
    /\ \E i \in DOMAIN env.content :
          /\ IsSome(MatchStyleCaptures(env.content[i]))
          /\ IsSome(SectionAt(env.content, i))
    /\ \A i \in DOMAIN env.content :
          SectionCaptures(env.content[i]) # Some(wanted)

\* Line l has the shape of a pattern line and would fail to parse.
Failing(l) ==
    /\ IsSome(MatchStyleCaptures(l))
    /\ \/ ~RegexNew(Unwrap(MatchStyleCaptures(l)).pattern).ok
       \/ ~TryFromDescription(Unwrap(MatchStyleCaptures(l)).description).ok

\* C18 (lines outside the requested section are inert): an iteration of
\* find_style made while the requested section is not open adds no match
\* style and does not fail, whatever the line; find_style fails only on a
\* line read while the requested section is open.
C18_OutsideInert ==
    /\ [][(pc = "find" /\ config # <<>> /\ ~append)
          => (result' = result /\ cres' = None /\ pc' = "find")]_vars
    /\ [](Loaded /\ ~Unwrap(cres).ok => append /\ Failing(Head(config)))

\* find_style succeeded on a file that holds, outside the requested
\* section, a line whose pattern does not compile and a line whose
\* description has an unknown token.
C18_Witness ==
    /\ Loaded
    /\ Unwrap(cres).ok
    /\ \E i \in DOMAIN env.content :
          /\ IsSome(MatchStyleCaptures(env.content[i]))
          /\ ~RegexNew(Unwrap(MatchStyleCaptures(env.content[i])).pattern).ok
    /\ \E i \in DOMAIN env.content :
          /\ IsSome(MatchStyleCaptures(env.content[i]))
          /\ RegexNew(Unwrap(MatchStyleCaptures(env.content[i])).pattern).ok
          /\ Failing(env.content[i])
    /\ \E i \in DOMAIN env.content :
          SectionCaptures(env.content[i]) = Some(wanted)

\* The command lines that ask for help and nothing else: no argument at
\* all, or a single help flag.
HelpOnly == argv = <<>> \/ argv \in {<<"--help">>, <<"-h">>}

\* C11: when the program is started with no arguments, or with --help or
\* -h, it never reads an input line or runs the scanner, and it exits with
\* success after printing exactly the usage text.
C11_HelpHandling ==
    HelpOnly =>
        /\ stdin = input
        /\ pc \in {"parse", "exited"}
        /\ pc = "exited" =>
              /\ exit = Some("SUCCESS")
              /\ out = <<Usage, Newline>>

\* C12: once argument processing has hit an error (a missing value after
\* --style/-s, a missing pattern or description after --match/-m, an
\* invalid regular expression, an unknown style token) no input line is
\* ever read and no output written, and the program exits with the failure
\* code after reporting the error.
C12_SetupErrorsFatal ==
    IsSome(perr) =>
        /\ stdin = input
        /\ buf = <<>>
        /\ out = <<>>
        /\ pc \in {"failed", "exited"}
        /\ pc = "exited" =>
              /\ exit = Some("FAILURE")
              /\ stderr = <<ErrorPrefix>> \o Unwrap(perr) \o <<Newline>>

\* A pattern set was loaded, then a pattern failed to compile, and the
\* program has exited with input still waiting.
C12_Witness ==
    /\ pc = "exited"
    /\ perr = Some(<<"regex parse error: unclosed group">>)
    /\ Len(styles) > 0
    /\ stdin # <<>>
    /\ exit = Some("FAILURE")

\* The Match Style a --match/-m builds from its two values.
Built(p, d) ==
    [pattern |-> Unwrap(RegexNew(ArgSyms(p)).value),
     style |-> Unwrap(TryFromDescription(ArgSyms(d)).value)]

\* The concatenation, in command-line order, of the sets of the
\* --style/-s flags and the Match Styles of the --match/-m flags.
RECURSIVE Concatenation(_, _)
Concatenation(av, e) ==
    IF av = <<>> THEN <<>>
    ELSE IF Head(av) \in StyleFlags /\ Len(av) >= 2
    THEN Unwrap(read_style_from_config(e, ArgSyms(av[2])).value)
         \o Concatenation(SubSeq(av, 3, Len(av)), e)
    ELSE IF Head(av) \in MatchFlags /\ Len(av) >= 3
    THEN <<Built(av[2], av[3])>> \o Concatenation(SubSeq(av, 4, Len(av)), e)
    ELSE Concatenation(Tail(av), e)

\* C13: after successful argument parsing the pattern set is the
\* concatenation, in command-line order, of the sets loaded by each
\* --style/-s and the Match Style built by each --match/-m; and processing
\* a --match only adds its Match Style after those already loaded.
C13_MatchAppends ==
    /\ [](perr = None /\ pc \notin {"parse", "failed"}
            => styles = Concatenation(argv, env))
    /\ [][AtArg /\ Head(args) \in MatchFlags /\ perr' = None
            => styles' = Append(styles, Built(args[2], args[3]))]_vars

\* A set was loaded from the configuration file, a --match came after it,
\* and the line loop has started with both, the loaded one first.
C13_Witness ==
    /\ argv = <<"--style", "foo", "--match", "a", "red">>
    /\ pc = "read"
    /\ perr = None
    /\ Len(styles) = 2
    /\ styles[1].style.fg = "green"
    /\ styles[2] = Built("a", "red")

\* C17: --style diff resolves to the built-in diff preset: the pattern set
\* is the three fixed line-start-anchored patterns for '+', '-' and '@@'
\* lines with their fixed styles, whether or not a configuration file
\* exists or defines a [diff] section.
C17_DiffPreset ==
    argv = <<"-s", "diff">> /\ pc # "parse" =>
        /\ perr = None
        /\ styles = DiffPreset

====
